---- MODULE Spec2Model ----
(***************************************************************************)
(* A model of bili_cover_getter.py: the function get_bilibili_cover and    *)
(* the script's main block.  Strings are sequences of one-character        *)
(* strings; Python's None and str values are tagged records.               *)
(***************************************************************************)
EXTENDS Integers, Sequences, FiniteSets

VARIABLES net, pc, calls, gets, response, soup, meta_tag, cover_url, exc,
          results, out

vars == <<net, pc, calls, gets, response, soup, meta_tag, cover_url, exc,
          results, out>>

(* ------------------------------ bounds -------------------------------- *)

\* longest enumerated content attribute of a one-element page
MaxLen == 5
\* most meta elements of an enumerated page
MaxTags == 2
\* most calls the repeating caller makes
MaxCalls == 2

(* --------------------------- Python values ---------------------------- *)

None == [t |-> "None"]

Str(s) == [t |-> "str", v |-> s]

\* truth value of an optional str: None and '' are falsy
Truthy(x) == x # None /\ x.v # <<>>

(* ------------------------- program constants -------------------------- *)

bilibili_video_url == "https://www.bilibili.com/video/BV1vsmSYdE94/"

UserAgent == "Mozilla/5.0 (Windows NT 10.0; Win64; x64) AppleWebKit/537.36 (KHTML, like Gecko) Chrome/91.0.4472.124 Safari/537.36"

headers == [User_Agent |-> UserAgent]

Timeout == 10

OgImage == "og:image"

HttpsScheme == <<"h", "t", "t", "p", "s", ":">>

(* ------------------------------ inputs -------------------------------- *)

Alphabet == {"/", "@", "\n", "a"}

Strings(n) == UNION {[1..k -> Alphabet] : k \in 0..n}

CoverWithSuffix ==
  <<"h", "t", "t", "p", "s", ":", "/", "/", "i", "0", ".", "h", "d", "s",
    "l", "b", ".", "c", "o", "m", "/", "c", "o", "v", "e", "r", ".", "j",
    "p", "g", "@", "6", "7", "2", "w", "_", "3", "7", "8", "h", ".", "j",
    "p", "g">>

CoverRelative ==
  <<"/", "/", "i", "0", ".", "h", "d", "s", "l", "b", ".", "c", "o", "m",
    "/", "c", "o", "v", "e", "r", ".", "j", "p", "g">>

CoverHttp == <<"h", "t", "t", "p", ":", "/", "/", "a", "@", "b">>

SuffixOnly == <<"@", "6", "7", "2", "w">>

TwoLines == <<"a", "@", "b", "\n", "c", "@", "d">>

\* content attributes of the elements of a longer page; None: no attribute
SampleContents ==
  {None, Str(<<>>), Str(CoverWithSuffix), Str(CoverRelative), Str(CoverHttp),
   Str(SuffixOnly), Str(TwoLines)}

Tag(p, c) == [property |-> p, content |-> c]

SampleTags == {Tag(p, c) : p \in {OgImage, "og:title"}, c \in SampleContents}

\* the meta elements of a document, in document order
TagLists ==
  {<<Tag(OgImage, Str(s))>> : s \in Strings(MaxLen)}
    \cup UNION {[1..k -> SampleTags] : k \in 0..MaxTags}

\* a response body: markup that parses to these meta elements
Html(tags) == [parses |-> TRUE, metas |-> tags]

\* a response body that the HTML parser rejects
Rejected == [parses |-> FALSE, metas |-> <<>>]

Pages == {Html(tags) : tags \in TagLists} \cup {Rejected}

Statuses == {103, 200, 304, 404, 500}

\* what the network does with the GET: the request raises, or a response
Outcomes ==
  {[kind |-> "raises", error |-> e] : e \in {"ConnectionError", "Timeout"}}
    \cup {[kind |-> "response", status_code |-> s, text |-> b] :
            s \in Statuses, b \in Pages}

(* -------------------------- exception classes ------------------------- *)

Parent(c) ==
  CASE c = "ConnectionError" -> "RequestException"
    [] c = "Timeout" -> "RequestException"
    [] c = "HTTPError" -> "RequestException"
    [] c = "RequestException" -> "OSError"
    [] c = "OSError" -> "Exception"
    [] c = "ParserRejectedMarkup" -> "Exception"
    [] c = "Exception" -> "BaseException"
    [] OTHER -> "object"

RECURSIVE IsSubclass(_, _)
IsSubclass(c, base) ==
  IF c = base THEN TRUE
  ELSE IF c = "object" THEN FALSE
  ELSE IsSubclass(Parent(c), base)

(* --------------------------- pure functions --------------------------- *)

\* variant: only server errors raise
raise_for_status_5xx(status_code) ==
  status_code >= 500 /\ status_code < 600

\* Response.raise_for_status: raises HTTPError for 4xx and 5xx
raise_for_status_raises(status_code) ==
  status_code >= 400 /\ status_code < 600

\* variant: the last matching element
RECURSIVE find_last(_, _)
find_last(tags, value) ==
  IF tags = <<>> THEN None
  ELSE IF tags[Len(tags)].property = value THEN tags[Len(tags)]
  ELSE find_last(SubSeq(tags, 1, Len(tags) - 1), value)

\* variant: any meta element matches, whatever its property
find_any(tags, value) == IF tags = <<>> THEN None ELSE Head(tags)

\* soup.find('meta', property='og:image'): the first matching element
RECURSIVE find(_, _)
find(tags, value) ==
  IF tags = <<>> THEN None
  ELSE IF Head(tags).property = value THEN Head(tags)
  ELSE find(Tail(tags), value)

\* variant: cover_url.startswith('/')
startswith_slash(s) == Len(s) >= 1 /\ s[1] = "/"

\* cover_url.startswith('//')
startswith_slashes(s) == Len(s) >= 2 /\ s[1] = "/" /\ s[2] = "/"

\* if cover_url.startswith('//'): cover_url = 'https:' + cover_url
add_scheme(s) == IF startswith_slashes(s) THEN HttpsScheme \o s ELSE s

\* re.sub(r'@.*', '', s): every '@' and what follows it on its line is
\* removed; '.' does not match a line break.  skipping: inside a match.
RECURSIVE re_sub_scan(_, _)
re_sub_scan(s, skipping) ==
  IF s = <<>> THEN <<>>
  ELSE IF skipping
    THEN IF Head(s) = "\n" THEN <<Head(s)>> \o re_sub_scan(Tail(s), FALSE)
         ELSE re_sub_scan(Tail(s), TRUE)
    ELSE IF Head(s) = "@" THEN re_sub_scan(Tail(s), TRUE)
         ELSE <<Head(s)>> \o re_sub_scan(Tail(s), FALSE)

\* variant: re.sub(r'@.*', '', s, count=1), only the first match is removed
RECURSIVE re_sub_once_scan(_, _)
re_sub_once_scan(s, skipping) ==
  IF s = <<>> THEN <<>>
  ELSE IF skipping
    THEN IF Head(s) = "\n" THEN s ELSE re_sub_once_scan(Tail(s), TRUE)
    ELSE IF Head(s) = "@" THEN re_sub_once_scan(Tail(s), TRUE)
         ELSE <<Head(s)>> \o re_sub_once_scan(Tail(s), FALSE)

re_sub_once(s) == re_sub_once_scan(s, FALSE)

re_sub(s) == re_sub_scan(s, FALSE)

(* ----------------------------- the program ---------------------------- *)

Init ==
  /\ net \in Outcomes
  /\ pc = "start"
  /\ calls = 0
  /\ gets = <<>>
  /\ response = None
  /\ soup = None
  /\ meta_tag = None
  /\ cover_url = None
  /\ exc = None
  /\ results = <<>>
  /\ out = <<>>

locals == <<response, soup, meta_tag, cover_url>>

\* the function returns value; its locals die with the call
Return(value) ==
  /\ pc' = "returned"
  /\ results' = Append(results, value)
  /\ response' = None
  /\ soup' = None
  /\ meta_tag' = None
  /\ cover_url' = None
  /\ exc' = None

\* cover_image_url = get_bilibili_cover(bilibili_video_url)
MainCall ==
  /\ pc = "start"
  /\ calls' = calls + 1
  /\ pc' = "request"
  /\ UNCHANGED <<net, gets, locals, exc, results, out>>

\* a caller that calls the function again with the same network outcome
RepeatCall ==
  /\ pc \in {"start", "returned"}
  /\ calls < MaxCalls
  /\ calls' = calls + 1
  /\ pc' = "request"
  /\ UNCHANGED <<net, gets, locals, exc, results, out>>

\* print(...); response = requests.get(video_url, headers=headers, timeout=10)
Request ==
  /\ pc = "request"
  /\ out' = Append(out, [kind |-> "requesting"])
  /\ gets' = Append(gets, [url |-> bilibili_video_url, headers |-> headers,
                           timeout |-> Timeout])
  /\ IF net.kind = "raises"
       THEN /\ exc' = Str(net.error)
            /\ pc' = "except"
            /\ UNCHANGED response
       ELSE /\ response' = [status_code |-> net.status_code, text |-> net.text]
            /\ pc' = "raise_for_status"
            /\ UNCHANGED exc
  /\ UNCHANGED <<net, calls, soup, meta_tag, cover_url, results>>

\* response.raise_for_status()
RaiseForStatus ==
  /\ pc = "raise_for_status"
  /\ IF raise_for_status_raises(response.status_code)
       THEN exc' = Str("HTTPError") /\ pc' = "except"
       ELSE exc' = exc /\ pc' = "parse"
  /\ UNCHANGED <<net, calls, gets, locals, results, out>>

\* soup = BeautifulSoup(response.text, 'html.parser')
Parse ==
  /\ pc = "parse"
  /\ IF ~response.text.parses
       THEN exc' = Str("ParserRejectedMarkup") /\ pc' = "except" /\ soup' = soup
       ELSE soup' = response.text.metas /\ pc' = "find" /\ exc' = exc
  /\ UNCHANGED <<net, calls, gets, response, meta_tag, cover_url, results, out>>

\* variant: the search resumes where the previous call's search started
FindResuming ==
  /\ pc = "find"
  /\ meta_tag' = find(SubSeq(soup, calls, Len(soup)), OgImage)
  /\ pc' = "if"
  /\ UNCHANGED <<net, calls, gets, response, soup, cover_url, exc, results, out>>

\* meta_tag = soup.find('meta', property='og:image')
Find ==
  /\ pc = "find"
  /\ meta_tag' = find(soup, OgImage)
  /\ pc' = "if"
  /\ UNCHANGED <<net, calls, gets, response, soup, cover_url, exc, results, out>>

\* if meta_tag and meta_tag.get('content'): cover_url = meta_tag['content']
IfContent ==
  /\ pc = "if"
  /\ IF meta_tag # None /\ Truthy(meta_tag.content)
       THEN cover_url' = meta_tag.content /\ pc' = "scheme"
       ELSE cover_url' = cover_url /\ pc' = "else"
  /\ UNCHANGED <<net, calls, gets, response, soup, meta_tag, exc, results, out>>

\* if cover_url.startswith('//'): cover_url = 'https:' + cover_url
Scheme ==
  /\ pc = "scheme"
  /\ cover_url' = Str(add_scheme(cover_url.v))
  /\ pc' = "strip"
  /\ UNCHANGED <<net, calls, gets, response, soup, meta_tag, exc, results, out>>

\* clean_cover_url = re.sub(r'@.*', '', cover_url); return clean_cover_url
Strip ==
  /\ pc = "strip"
  /\ Return(Str(re_sub(cover_url.v)))
  /\ UNCHANGED <<net, calls, gets, out>>

\* else: print(...); return None
NotFound ==
  /\ pc = "else"
  /\ out' = Append(out, [kind |-> "not_found"])
  /\ Return(None)
  /\ UNCHANGED <<net, calls, gets>>

\* except requests.exceptions.RequestException as e
CatchesRequestException(e) == IsSubclass(e, "RequestException")

\* except Exception as e (reached when the first clause does not match)
CatchesException(e) ==
  ~CatchesRequestException(e) /\ IsSubclass(e, "Exception")

\* variant: a failed request is tried again
ExceptRequestExceptionRetry ==
  /\ pc = "except"
  /\ CatchesRequestException(exc.v)
  /\ out' = Append(out, [kind |-> "request_failed", e |-> exc.v])
  /\ pc' = "request"
  /\ exc' = None
  /\ UNCHANGED <<net, calls, gets, locals, results>>

ExceptRequestException ==
  /\ pc = "except"
  /\ CatchesRequestException(exc.v)
  /\ out' = Append(out, [kind |-> "request_failed", e |-> exc.v])
  /\ Return(None)
  /\ UNCHANGED <<net, calls, gets>>

ExceptException ==
  /\ pc = "except"
  /\ CatchesException(exc.v)
  /\ out' = Append(out, [kind |-> "unknown_error", e |-> exc.v])
  /\ Return(None)
  /\ UNCHANGED <<net, calls, gets>>

\* if cover_image_url: print(...); print(cover_image_url)
MainPrint ==
  /\ pc = "returned"
  /\ pc' = "done"
  /\ IF Truthy(results[Len(results)])
       THEN out' = out \o <<[kind |-> "success"],
                            [kind |-> "url", v |-> results[Len(results)].v]>>
       ELSE out' = out
  /\ UNCHANGED <<net, calls, gets, locals, exc, results>>

\* the steps of get_bilibili_cover
Body ==
  \/ Request
  \/ RaiseForStatus
  \/ Parse
  \/ Find
  \/ IfContent
  \/ Scheme
  \/ Strip
  \/ NotFound
  \/ ExceptRequestException
  \/ ExceptException

\* the script
Next == MainCall \/ Body \/ MainPrint

Spec == Init /\ [][Next]_vars

\* the function called MaxCalls times under one network outcome
NextRepeat == RepeatCall \/ Body

SpecRepeat == Init /\ [][NextRepeat]_vars

(* ------------------------- vocabulary of the claims ------------------- *)

Returned == pc = "returned"

\* the value the last finished call returned
Last == results[Len(results)]

\* the response arrived with a 2xx status and its body parses
Success == net.kind = "response" /\ net.status_code \in 200..299 /\ net.text.parses

Metas == net.text.metas

OgIndices == {i \in DOMAIN Metas : Metas[i].property = OgImage}

HasOg == OgIndices # {}

\* the first og:image element in document order
FirstOg == Metas[CHOOSE i \in OgIndices : \A j \in OgIndices : i <= j]

\* the first og:image element exists and its content is a non-empty string
HasContent == HasOg /\ FirstOg.content # None /\ Len(FirstOg.content.v) > 0

Content == FirstOg.content.v

BeginsWithSlashes(s) == Len(s) >= 2 /\ SubSeq(s, 1, 2) = <<"/", "/">>

AtIndices(s) == {i \in DOMAIN s : s[i] = "@"}

\* s truncated immediately before its first '@'
BeforeFirstAt(s) ==
  IF AtIndices(s) = {} THEN s
  ELSE SubSeq(s, 1, (CHOOSE i \in AtIndices(s) : \A j \in AtIndices(s) : i <= j) - 1)

Printed(kind) == \E i \in DOMAIN out : out[i].kind = kind

\* the call ended absent with the not-found message
NotFoundOutcome == Last = None /\ out[Len(out)].kind = "not_found"

(* -------------------------------- claims ------------------------------ *)

\* C1: on a successful response whose first og:image element has non-empty
\* content, the returned string is the scheme-prefixed content truncated
\* immediately before its first '@'.
C1_TruncatedAtFirstAt ==
  (Returned /\ Success /\ HasContent)
    => Last = Str(BeforeFirstAt(IF BeginsWithSlashes(Content)
                                  THEN HttpsScheme \o Content ELSE Content))

\* C2: content beginning with '//' is returned with 'https:' prepended and
\* then '@'-stripped; any other content gets no scheme added or changed: it
\* is returned '@'-stripped, beginning with the content up to its first '@'.
C2_SchemeOnlyForRelative ==
  (Returned /\ Success /\ HasContent)
    => /\ Last # None
       /\ IF BeginsWithSlashes(Content)
            THEN /\ Last.v = re_sub(HttpsScheme \o Content)
                 /\ Len(Last.v) >= 8
                 /\ SubSeq(Last.v, 1, 8) = HttpsScheme \o <<"/", "/">>
            ELSE /\ Last.v = re_sub(Content)
                 /\ Len(Last.v) <= Len(Content)
                 /\ Len(Last.v) >= Len(BeforeFirstAt(Content))
                 /\ SubSeq(Last.v, 1, Len(BeforeFirstAt(Content)))
                      = BeforeFirstAt(Content)

C2_Witness ==
  /\ Returned /\ Success /\ HasContent
  /\ BeginsWithSlashes(Content)
  /\ AtIndices(Content) # {}

\* C3: when the request succeeds and the page has no og:image meta element,
\* the call returns None and no exception is raised on the way.
C3_NoTagReturnsNone ==
  (Success /\ ~HasOg)
    => /\ pc # "except"
       /\ exc = None
       /\ \A i \in DOMAIN results : results[i] = None
       /\ Returned => NotFoundOutcome

C3_Witness ==
  /\ Returned /\ Success /\ ~HasOg
  /\ \E i \in DOMAIN Metas : Metas[i].content = Str(CoverWithSuffix)

RequestFails ==
  \/ net.kind = "raises"
  \/ net.kind = "response" /\ net.status_code \in {404, 500}

\* C4: when the request raises or the status is 404 or 500 the call returns
\* None with the request-failure message, and every pending exception of an
\* Exception subclass (from the request, the status check or the parse) is
\* taken by one of the two except clauses.
C4_FailuresCaught ==
  /\ (pc = "except" /\ IsSubclass(exc.v, "Exception"))
       => ENABLED (ExceptRequestException \/ ExceptException)
  /\ (RequestFails /\ Returned)
       => /\ Last = None
          /\ exc = None
          /\ out[Len(out)].kind = "request_failed"
  /\ RequestFails => pc \notin {"parse", "find", "if", "scheme", "strip", "else"}

C4_Witness ==
  /\ Returned
  /\ net.kind = "response" /\ net.status_code = 404
  /\ net.text.parses /\ HasContent

\* C5: every response whose status is not 2xx, 1xx and 3xx included, ends
\* in the request-failure outcome and returns None; its body is not parsed.
C5_Non2xxFails ==
  (net.kind = "response" /\ net.status_code \notin 200..299)
    => /\ pc \notin {"parse", "find", "if", "scheme", "strip", "else"}
       /\ Returned => (Last = None /\ out[Len(out)].kind = "request_failed")

\* C6: a finished run of the script has printed the cover URL or one of the
\* failure messages.
C6_RunPrintsOutcome ==
  pc = "done"
    => \/ Printed("url")
       \/ Printed("request_failed")
       \/ Printed("unknown_error")
       \/ Printed("not_found")

C9_NotFoundOnlyWithoutTag ==
  (Returned /\ Success) => (NotFoundOutcome <=> ~HasOg)

\* C9 amended: on a successful response the not-found outcome occurs exactly
\* when no og:image element exists or the first one has a missing or empty
\* content; otherwise the normalized content of the first one is returned,
\* whatever later og:image elements hold.
C9_FirstTagDecides ==
  (Returned /\ Success)
    => /\ NotFoundOutcome <=> ~HasContent
       /\ HasContent => Last = Str(re_sub(add_scheme(Content)))

C9_Witness ==
  /\ Returned /\ Success /\ HasOg /\ ~HasContent
  /\ \E i \in OgIndices : Metas[i].content = Str(CoverRelative)
  /\ NotFoundOutcome

\* C10: a returned string contains no '@' and does not begin with '//', so
\* normalizing it again leaves it unchanged.
C10_ResultNormalized ==
  (Returned /\ Last # None)
    => /\ AtIndices(Last.v) = {}
       /\ ~BeginsWithSlashes(Last.v)
       /\ re_sub(add_scheme(Last.v)) = Last.v

C10_Witness ==
  /\ Returned /\ Success /\ HasContent
  /\ Cardinality(AtIndices(Content)) >= 2
  /\ \E i \in DOMAIN Last.v : Last.v[i] = "\n"

====
